---- MODULE Spec2Model ----
(***************************************************************************)
(* A model of the chirpy HTTP backend (jsleep/learngo_httpserver): the     *)
(* auth package (password hashing, JWT issue/validate, bearer extraction,  *)
(* refresh-token generation) and the handlers of main.go that compose it.  *)
(*                                                                         *)
(* Time is counted in ticks; TicksPerSecond ticks make one second, so that *)
(* the whole-second precision of a JWT NumericDate is visible.             *)
(* A Go string is a sequence of one-character strings (text) or of bytes   *)
(* (secrets, passwords, random buffers).                                   *)
(***************************************************************************)
EXTENDS Integers, Sequences, FiniteSets, TLC

VARIABLES
    now,        \* the clock read by time.Now(), in ticks
    issued,     \* JWT harness: the MakeJWT calls made so far
    lastV,      \* JWT harness: the last ValidateJWT call and its result
    input,      \* harnesses: the input drawn at Init
    output,     \* pure-function harnesses: the result of the last application
    cfg,        \* apiConfig: platform and secret, loaded once by main
    hits,       \* apiConfig.fileserverHits
    users,      \* the users table
    rtokens,    \* the refresh_tokens table
    sessions,   \* the session tokens MakeJWT has minted for the handlers
    resp,       \* the response to the request handled at this instant
    chirps,     \* the chirps table
    reqs,       \* the /app/ requests in flight: where each one stands
    counted     \* history: the counter at the last Store and the Adds made since

srvVars == <<cfg, hits, users, rtokens, sessions, resp, chirps, reqs, counted>>
vars == <<now, issued, lastV, input, output, srvVars>>

(***************************************************************************)
(* Bounds of the model.                                                    *)
(***************************************************************************)
TicksPerSecond == 2     \* clock resolution below one second
MaxNow == 7             \* the JWT harness stops the clock here
MaxIssued == 1          \* MakeJWT calls recorded by the JWT harness
MaxRequests == 2        \* /app/ requests served at the same time

(***************************************************************************)
(* google/uuid: a UUID value is a small integer, 0 being uuid.Nil.  String *)
(* prints the canonical form; Parse also accepts the urn:uuid: and braced  *)
(* forms of the same value and rejects everything else.                    *)
(***************************************************************************)
UUIDNil == 0
UUIDs == 0..1

UUIDString(u) == <<"canonical", u>>

SubjectStrings ==
    { <<f, u>> : f \in {"canonical", "urn", "braced"}, u \in UUIDs }
    \cup { <<"garbage", 0>>, <<"empty", 0>> }

UUIDParses(s) == s[1] \in {"canonical", "urn", "braced"}
UUIDParse(s) == IF UUIDParses(s) THEN s[2] ELSE UUIDNil

(***************************************************************************)
(* crypto/hmac as used by jwt.SigningMethodHS256: a key no longer than the *)
(* 64-byte block is padded with zero bytes to the block size before use,   *)
(* so two such keys give the same padded key exactly when they are equal   *)
(* up to trailing zero bytes: the padded key is written here without its   *)
(* trailing zeros.  (A longer key is hashed first; secrets here are short.)*)
(* The MAC itself is ideal: equal exactly when padded key and message are. *)
(***************************************************************************)
HmacBlockSize == 64

RECURSIVE StripZeros(_)
StripZeros(key) ==
    IF key # <<>> /\ key[Len(key)] = 0
    THEN StripZeros(SubSeq(key, 1, Len(key) - 1))
    ELSE key

\* the hash of a longer key is kept apart from every short key by a leading -1
HmacKey(key) ==
    IF Len(key) <= HmacBlockSize THEN StripZeros(key) ELSE <<-1>> \o key

HS256(key, msg) == [k |-> HmacKey(key), m |-> msg]

\* secrets as byte strings; <<115>> and <<115, 0>> differ only by a trailing NUL
Secrets == { <<115>>, <<115, 0>>, <<98>> }

(***************************************************************************)
(* jwt.NumericDate: NewNumericDate truncates to jwt.TimePrecision, one     *)
(* second; the value travels in the token as a number of seconds.          *)
(***************************************************************************)
NewNumericDate(t) == t \div TicksPerSecond
NumericDateTime(nd) == nd * TicksPerSecond

\* a nil *NumericDate is the empty set, a set one is a singleton
NilDate == {}
DateOf(p) == CHOOSE d \in p : TRUE

(***************************************************************************)
(* auth.MakeJWT (part_001:24-34), called at clock reading t.               *)
(***************************************************************************)
\* mutant: the lifetime is dropped, expires-at is the issue time
MakeJWT_NoLifetime(userID, tokenSecret, expiresIn, t) ==
    LET claims == [ sub |-> <<"canonical", userID>>,
                    exp |-> {t \div TicksPerSecond},
                    iat |-> {t \div TicksPerSecond},
                    iss |-> "chirpy" ]
    IN  [segments |-> 3, claims |-> claims,
         sig |-> [k |-> HmacKey(tokenSecret), m |-> claims]]

SignedString(claims, key) ==
    [segments |-> 3, claims |-> claims, sig |-> HS256(key, claims)]

MakeJWT(userID, tokenSecret, expiresIn, t) ==
    LET claims == [ sub |-> UUIDString(userID),
                    exp |-> {NewNumericDate(t + expiresIn)},
                    iat |-> {NewNumericDate(t)},
                    iss |-> "chirpy" ]
    IN  SignedString(claims, tokenSecret)

(***************************************************************************)
(* auth.ValidateJWT (part_001:36-54), called at clock reading t.           *)
(* jwt.ParseWithClaims: three segments, then the signature under the key   *)
(* the keyfunc returns, then the registered claims (exp, no leeway: valid  *)
(* only while t is before exp).  The handler's own checks follow.          *)
(***************************************************************************)
Ok(u) == [kind |-> "ok", id |-> u, err |-> "none"]
Err(e) == [kind |-> "err", id |-> UUIDNil, err |-> e]
Panic == [kind |-> "panic", id |-> UUIDNil, err |-> "nil pointer dereference"]

\* mutant: a token is still accepted at the instant of its expires-at
ExpiredAt_StrictlyAfter(exp, t) == NumericDateTime(exp) < t

ExpiredAt(exp, t) == ~(t < NumericDateTime(exp))

\* mutant: the claims are parsed without verifying the signature
ParseWithClaims_Unverified(tok, key, t) ==
    IF tok.segments # 3 THEN "token is malformed"
    ELSE IF tok.claims.exp # NilDate /\ ExpiredAt(DateOf(tok.claims.exp), t)
         THEN "token is expired"
    ELSE "none"

ParseWithClaims(tok, key, t) ==
    IF tok.segments # 3 THEN "token is malformed"
    ELSE IF tok.sig # HS256(key, tok.claims) THEN "signature is invalid"
    ELSE IF tok.claims.exp # NilDate /\ ExpiredAt(DateOf(tok.claims.exp), t)
         THEN "token is expired"
    ELSE "none"

\* mutant: the error of uuid.Parse is dropped
ValidateJWT_ParseErrorDropped(tokenString, tokenSecret, t) ==
    LET err == ParseWithClaims(tokenString, tokenSecret, t)
        claims == tokenString.claims
    IN  IF err # "none" THEN Err(err)
        ELSE IF claims.exp = NilDate THEN Panic
        ELSE IF NumericDateTime(DateOf(claims.exp)) < t THEN Err("token expired")
        ELSE Ok(UUIDParse(claims.sub))

ValidateJWT(tokenString, tokenSecret, t) ==
    LET err == ParseWithClaims(tokenString, tokenSecret, t)
        claims == tokenString.claims
    IN  IF err # "none" THEN Err(err)
        ELSE IF claims.exp = NilDate THEN Panic
        ELSE IF NumericDateTime(DateOf(claims.exp)) < t THEN Err("token expired")
        ELSE IF ~UUIDParses(claims.sub) THEN Err("invalid UUID")
        ELSE Ok(UUIDParse(claims.sub))

(***************************************************************************)
(* The JWT harness: a subject, a secret and a lifetime are drawn at Init;  *)
(* MakeJWT is called with them at any clock reading, and ValidateJWT is    *)
(* called at any later reading on an issued token, on a token another      *)
(* party signed, or on a malformed string, under any secret.               *)
(***************************************************************************)
Lifetimes == { -1, 0, 1, TicksPerSecond, TicksPerSecond + 1 }

\* the server's state while a harness of the auth package runs: nothing served
NoResp == [op |-> "none"]
AppRequests == 1..MaxRequests
NoRequests == [r \in AppRequests |-> "idle"]
CountedFrom(base) == [base |-> base, adds |-> 0]
SrvIdle ==
    /\ cfg = [platform |-> "dev", secret |-> <<115>>]
    /\ hits = 0
    /\ users = {}
    /\ rtokens = {}
    /\ sessions = {}
    /\ resp = NoResp
    /\ chirps = {}
    /\ reqs = NoRequests
    /\ counted = CountedFrom(0)

NoInput == [kind |-> "none"]
NoOutput == [kind |-> "none"]

MalformedToken ==
    [segments |-> 2,
     claims |-> [sub |-> <<"empty", 0>>, exp |-> NilDate, iat |-> NilDate, iss |-> ""],
     sig |-> HS256(<<>>, "")]

NoValidation ==
    [called |-> FALSE, tok |-> MalformedToken, key |-> <<>>, at |-> 0, res |-> Err("none")]

\* tokens signed by someone who holds a secret but is not MakeJWT
ForeignSubjects == { <<"canonical", 1>>, <<"urn", 1>>, <<"garbage", 0>>, <<"empty", 0>> }

ForeignTokens(t) ==
    { SignedString([sub |-> s, exp |-> e, iat |-> {NewNumericDate(t)}, iss |-> "chirpy"], k) :
        s \in ForeignSubjects,
        e \in { NilDate, {NewNumericDate(t)}, {NewNumericDate(t) + 1} },
        k \in { <<115>> } }

InitJWT ==
    /\ now \in 0..(TicksPerSecond - 1)
    /\ issued = {}
    /\ lastV = NoValidation
    /\ input \in [kind : {"jwt"}, S : UUIDs, K : Secrets, L : Lifetimes]
    /\ output = NoOutput
    /\ SrvIdle

\* the clock advances; the recorded validation belongs to the instant it was made at
JwtTick ==
    /\ now < MaxNow
    /\ now' = now + 1
    /\ lastV' = NoValidation
    /\ UNCHANGED <<issued, input, output, srvVars>>

JwtMake ==
    /\ Cardinality(issued) < MaxIssued
    /\ issued' = issued \cup
          { [tok |-> MakeJWT(input.S, input.K, input.L, now),
             sub |-> input.S, key |-> input.K, life |-> input.L, at |-> now] }
    /\ UNCHANGED <<now, lastV, input, output, srvVars>>

JwtValidate ==
    \E tok \in { i.tok : i \in issued } \cup ForeignTokens(now) \cup { MalformedToken },
       key \in Secrets :
        /\ lastV' = [called |-> TRUE, tok |-> tok, key |-> key, at |-> now,
                     res |-> ValidateJWT(tok, key, now)]
        /\ UNCHANGED <<now, issued, input, output, srvVars>>

NextJWT == JwtTick \/ JwtMake \/ JwtValidate

SpecJWT == InitJWT /\ [][NextJWT]_vars

(***************************************************************************)
(* Claims about MakeJWT and ValidateJWT, checked under SpecJWT.            *)
(***************************************************************************)
\* the recorded ValidateJWT call was made on the token of MakeJWT call i
ValidatedIssue(i) == lastV.called /\ lastV.tok = i.tok

\* C1 as stated: for every user id S, secret K and positive lifetime L,
\* ValidateJWT(MakeJWT(S, K, L), K) called before L has elapsed returns
\* exactly S and no error.
C1_AsStated ==
    \A i \in issued :
        ( ValidatedIssue(i) /\ lastV.key = i.key /\ i.life > 0
          /\ lastV.at < i.at + i.life )
        => lastV.res = Ok(i.sub)

\* C1 as amended: for every user id S, secret K and positive lifetime L,
\* ValidateJWT(MakeJWT(S, K, L), K) called before the token's expires-at,
\* which is the issue time plus L rounded down to a whole second, returns
\* exactly S and no error.
C1_RoundTripBeforeExpiresAt ==
    \A i \in issued :
        ( ValidatedIssue(i) /\ lastV.key = i.key /\ i.life > 0
          /\ lastV.at < NumericDateTime(NewNumericDate(i.at + i.life)) )
        => lastV.res = Ok(i.sub)

C1_Witness ==
    \E i \in issued :
        /\ ValidatedIssue(i) /\ lastV.key = i.key /\ i.life > 0
        /\ lastV.at > i.at
        /\ lastV.at < NumericDateTime(NewNumericDate(i.at + i.life))
        /\ lastV.res = Ok(i.sub)

\* C2: a ValidateJWT call on a token issued by MakeJWT, made when the clock
\* is at or after issue time + lifetime, returns an error and never a subject
\* id, whatever the secret; there is no tolerance window, and a token of zero
\* or negative lifetime already fails.
C2_ExpiredTokenRejected ==
    \A i \in issued :
        ( ValidatedIssue(i) /\ lastV.at >= i.at + i.life )
        => ( lastV.res.kind = "err" /\ lastV.res.id = UUIDNil )

\* validated with the signing secret at the very instant issue time + lifetime
C2_Witness ==
    \E i \in issued :
        /\ ValidatedIssue(i) /\ lastV.key = i.key /\ i.life > 0
        /\ lastV.at = i.at + i.life
        /\ lastV.res = Err("token is expired")

\* C3 as stated: for every user id S, lifetime L and secrets K1 # K2,
\* ValidateJWT(MakeJWT(S, K1, L), K2) returns an error and never a subject id.
C3_AsStated ==
    \A i \in issued :
        ( ValidatedIssue(i) /\ lastV.key # i.key ) => lastV.res.kind = "err"

\* C3 as amended: for every user id S, lifetime L and secrets K1, K2 that
\* differ as HMAC keys (they differ otherwise than by trailing zero bytes),
\* ValidateJWT(MakeJWT(S, K1, L), K2) returns an error and never a subject id.
C3_WrongHmacKeyRejected ==
    \A i \in issued :
        ( ValidatedIssue(i) /\ HmacKey(lastV.key) # HmacKey(i.key) )
        => ( lastV.res.kind = "err" /\ lastV.res.id = UUIDNil )

\* an unexpired token, validated under another secret
C3_Witness ==
    \E i \in issued :
        /\ ValidatedIssue(i) /\ HmacKey(lastV.key) # HmacKey(i.key)
        /\ lastV.at < NumericDateTime(NewNumericDate(i.at + i.life))
        /\ lastV.res = Err("signature is invalid")

\* the recorded call was on a token correctly signed under the secret it was
\* validated with
CorrectlySigned ==
    /\ lastV.called /\ lastV.tok.segments = 3
    /\ lastV.tok.sig = HS256(lastV.key, lastV.tok.claims)

BearerPrefix == <<"B", "e", "a", "r", "e", "r", " ">>

HeaderValues(headers, name) ==
    IF name \in DOMAIN headers THEN headers[name] ELSE <<>>

BearerOk(tok) == [kind |-> "bearer", token |-> tok, err |-> "none"]
BearerErr(e) == [kind |-> "bearer", token |-> <<>>, err |-> e]

RECURSIVE TrimSpace(_)
TrimSpace(str) ==
    IF str # <<>> /\ str[1] = " " THEN TrimSpace(Tail(str))
    ELSE IF str # <<>> /\ str[Len(str)] = " " THEN TrimSpace(SubSeq(str, 1, Len(str) - 1))
    ELSE str

\* mutant: the header value and the token are trimmed of surrounding spaces
GetBearerToken_Trimmed(headers) ==
    LET vals == HeaderValues(headers, "Authorization")
        authHeader == TrimSpace(vals[1])
    IN  IF Len(vals) = 0 THEN BearerErr("missing authorization header")
        ELSE IF Len(authHeader) < 7 \/ SubSeq(authHeader, 1, 7) # BearerPrefix
             THEN BearerErr("invalid authorization header")
        ELSE BearerOk(TrimSpace(SubSeq(authHeader, 8, Len(authHeader))))

GetBearerToken(headers) ==
    LET vals == HeaderValues(headers, "Authorization")
        authHeader == vals[1]
    IN  IF Len(vals) = 0 THEN BearerErr("missing authorization header")
        ELSE IF Len(authHeader) < 7 \/ SubSeq(authHeader, 1, 7) # BearerPrefix
             THEN BearerErr("invalid authorization header")
        ELSE BearerOk(SubSeq(authHeader, 8, Len(authHeader)))

(***************************************************************************)
(* The bearer harness: a header set is drawn at Init, GetBearerToken is    *)
(* applied to it.                                                          *)
(***************************************************************************)
MaxHeaderValues == 2    \* values of one header name

HeaderStarts ==
    { BearerPrefix,
      <<"b", "e", "a", "r", "e", "r", " ">>,
      <<"B", "e", "a", "r", "e", "r">>,
      <<" ", "B", "e", "a", "r", "e", "r", " ">>,
      <<"B", "a", "s", "i", "c", " ">>,
      <<"B", "e", "a", "r">>,
      <<>> }

HeaderRests ==
    { <<>>, <<"a", "b", "c", "1", "2", "3">>, <<" ", "a", "b", " ">>, <<" ">> }

AuthValues == { a \o r : a \in HeaderStarts, r \in HeaderRests }

AuthValueLists ==
    UNION { [1..n -> AuthValues] : n \in 0..MaxHeaderValues }

HeaderSets ==
    { [h \in {"Content-Type"} |-> <<<<"j", "s", "o", "n">>>>] }
    \cup { [h \in {"Authorization"} |-> vals] : vals \in AuthValueLists }

InitBearer ==
    /\ now = 0
    /\ issued = {}
    /\ lastV = NoValidation
    /\ input \in [kind : {"bearer"}, headers : HeaderSets]
    /\ output = NoOutput
    /\ SrvIdle

BearerApply ==
    /\ input.kind = "bearer"
    /\ output = NoOutput
    /\ output' = GetBearerToken(input.headers)
    /\ UNCHANGED <<now, issued, lastV, input, srvVars>>

NextBearer == BearerApply

SpecBearer == InitBearer /\ [][NextBearer]_vars

HasPrefix(str, prefix) ==
    /\ Len(str) >= Len(prefix)
    /\ \A i \in 1..Len(prefix) : str[i] = prefix[i]

\* C5: GetBearerToken's result depends only on the first Authorization value:
\* with no value it is the missing-header error; if the first value does not
\* begin with the exact prefix "Bearer " it is the malformed-header error;
\* otherwise it is the rest of the first value, unmodified, whatever further
\* values follow.
C5_BearerExtraction ==
    output.kind = "bearer" =>
        LET vals == HeaderValues(input.headers, "Authorization")
        IN  /\ vals = <<>> =>
                output = BearerErr("missing authorization header")
            /\ ( vals # <<>> /\ ~HasPrefix(vals[1], BearerPrefix) ) =>
                output = BearerErr("invalid authorization header")
            /\ ( vals # <<>> /\ HasPrefix(vals[1], BearerPrefix) ) =>
                /\ output.err = "none"
                /\ vals[1] = BearerPrefix \o output.token
            /\ vals # <<>> =>
                \A more \in { <<>> } \cup { <<v>> : v \in AuthValues } :
                    GetBearerToken([h \in {"Authorization"} |-> <<vals[1]>> \o more])
                        = output

\* a token with surrounding spaces, returned as it stands, a second value ignored
C5_Witness ==
    /\ output.kind = "bearer"
    /\ Len(HeaderValues(input.headers, "Authorization")) = 2
    /\ output = BearerOk(<<" ", "a", "b", " ">>)

(***************************************************************************)
(* auth.MakeRefreshToken (part_001:67-77).  The random source is a stream  *)
(* of read outcomes: each rand.Read(b) takes the next outcome, which wrote *)
(* its first n bytes into b (zero elsewhere) and returned n and an error.  *)
(* The result also tells how many reads the call made.                     *)
(***************************************************************************)
RefreshTokenBytes == 32

HexTable == <<"0", "1", "2", "3", "4", "5", "6", "7",
              "8", "9", "a", "b", "c", "d", "e", "f">>

\* hex.EncodeToString: two characters per byte, high nibble first
HexEncode(b) ==
    [i \in 1..(2 * Len(b)) |->
        IF i % 2 = 1 THEN HexTable[(b[(i + 1) \div 2] \div 16) + 1]
                     ELSE HexTable[(b[i \div 2] % 16) + 1]]

RandRead(outcome, size) ==
    [i \in 1..size |-> IF i <= outcome.n THEN outcome.data[i] ELSE 0]

RefreshOk(tok, reads) ==
    [kind |-> "refresh", token |-> tok, err |-> "none", reads |-> reads]
RefreshErr(e, reads) ==
    [kind |-> "refresh", token |-> <<>>, err |-> e, reads |-> reads]

\* mutant: the byte count of the read is not checked
MakeRefreshToken_CountUnchecked(source) ==
    LET b == RandRead(source[1], RefreshTokenBytes)
    IN  IF source[1].err # "none" THEN RefreshErr(source[1].err, 1)
        ELSE RefreshOk(HexEncode(b), 1)

MakeRefreshToken(source) ==
    LET b == RandRead(source[1], RefreshTokenBytes)
        n == source[1].n
        err == source[1].err
    IN  IF err # "none" THEN RefreshErr(err, 1)
        ELSE IF n # Len(b) THEN RefreshErr("expected to read 32 bytes", 1)
        ELSE RefreshOk(HexEncode(b), 1)

(***************************************************************************)
(* The refresh-token harness: the outcomes of the random source are drawn  *)
(* at Init, MakeRefreshToken is applied to them.                           *)
(***************************************************************************)
\* the bytes a read may deliver: position i of pattern p
RandomPatterns == 0..5
PatternByte(p, i) ==
    CASE p = 0 -> 0
      [] p = 1 -> 255
      [] p = 2 -> 10
      [] p = 3 -> 171
      [] p = 4 -> (i * 8) - 1
      [] OTHER -> (i * 37) % 256

ReadOutcomes ==
    { [n |-> n, err |-> e, data |-> [i \in 1..RefreshTokenBytes |-> PatternByte(p, i)]] :
        n \in 0..RefreshTokenBytes, e \in {"none", "EOF"}, p \in RandomPatterns }

FullOutcome ==
    [n |-> RefreshTokenBytes, err |-> "none",
     data |-> [i \in 1..RefreshTokenBytes |-> PatternByte(3, i)]]

InitRefreshToken ==
    /\ now = 0
    /\ issued = {}
    /\ lastV = NoValidation
    /\ input \in [kind : {"refresh"}, source : { <<o, FullOutcome>> : o \in ReadOutcomes }]
    /\ output = NoOutput
    /\ SrvIdle

RefreshTokenApply ==
    /\ input.kind = "refresh"
    /\ output = NoOutput
    /\ output' = MakeRefreshToken(input.source)
    /\ UNCHANGED <<now, issued, lastV, input, srvVars>>

NextRefreshToken == RefreshTokenApply

SpecRefreshToken == InitRefreshToken /\ [][NextRefreshToken]_vars

LowerHexDigits == { "0", "1", "2", "3", "4", "5", "6", "7", "8", "9",
                    "a", "b", "c", "d", "e", "f" }

HexValue(c) == CHOOSE v \in 0..15 : HexTable[v + 1] = c

\* C8: MakeRefreshToken either returns exactly 64 lowercase hexadecimal
\* characters that encode 32 bytes the random source delivered in full and
\* without error, or returns an error with an empty token; the random source
\* is read once, not again after a failure.
C8_RefreshTokenAllOrNothing ==
    output.kind = "refresh" =>
        LET first == input.source[1]
        IN  /\ output.reads = 1
            /\ \/ /\ output.err # "none"
                  /\ output.token = <<>>
               \/ /\ output.err = "none"
                  /\ first.err = "none" /\ first.n = 32
                  /\ Len(output.token) = 64
                  /\ \A i \in 1..64 : output.token[i] \in LowerHexDigits
                  /\ \A i \in 1..32 :
                        16 * HexValue(output.token[2 * i - 1])
                          + HexValue(output.token[2 * i]) = first.data[i]
            /\ ( first.err # "none" \/ first.n < 32 ) => output.err # "none"

\* a short read without error: 31 of 32 bytes, and no token
C8_Witness ==
    /\ output.kind = "refresh"
    /\ input.source[1].n = 31 /\ input.source[1].err = "none"
    /\ output.err # "none" /\ output.token = <<>>

\* a full read, encoded
C8_WitnessToken ==
    /\ output.kind = "refresh"
    /\ output.err = "none" /\ Len(output.token) = 64

(***************************************************************************)
(* auth.HashPassword and auth.CheckPasswordHash (part_001:15-22), over     *)
(* x/crypto/bcrypt.  bcrypt keys Blowfish with the password followed by a  *)
(* NUL byte, repeated cyclically over the 72 bytes the key schedule reads. *)
(* The hash itself is ideal: two digests are equal exactly when key bytes, *)
(* salt and cost are.  GenerateFromPassword refuses more than 72 bytes;    *)
(* CompareHashAndPassword does not look at the length.                     *)
(***************************************************************************)
BcryptCost == 14
BcryptKeyBytes == 72

BcryptKey(password) ==
    LET ckey == Append(password, 0)
    IN  [i \in 1..BcryptKeyBytes |-> ckey[((i - 1) % Len(ckey)) + 1]]

Bcrypt(password, cost, salt) ==
    [key |-> BcryptKey(password), cost |-> cost, salt |-> salt]

\* the stored string: prefix, cost, salt and digest; "" is what string(nil) gives
HashString(cost, salt, digest) ==
    [wellFormed |-> TRUE, cost |-> cost, salt |-> salt, digest |-> digest]
EmptyHashString ==
    [wellFormed |-> FALSE, cost |-> 0, salt |-> 0, digest |-> Bcrypt(<<>>, 0, 0)]

\* mutant: the hash is made of the salt alone, the password is not used
HashPassword_PasswordUnused(password, salt) ==
    IF Len(password) > BcryptKeyBytes
    THEN [hash |-> EmptyHashString, err |-> "password length exceeds 72 bytes"]
    ELSE [hash |-> HashString(BcryptCost, salt, Bcrypt(<<>>, BcryptCost, salt)),
          err |-> "none"]

\* salt: the 16 random bytes GenerateFromPassword draws
HashPassword(password, salt) ==
    IF Len(password) > BcryptKeyBytes
    THEN [hash |-> EmptyHashString, err |-> "password length exceeds 72 bytes"]
    ELSE [hash |-> HashString(BcryptCost, salt, Bcrypt(password, BcryptCost, salt)),
          err |-> "none"]

\* mutant: the comparison's result is dropped, nil is returned
CheckPasswordHash_ErrorDropped(password, hash) == "none"

\* the error returned, "none" for nil
CheckPasswordHash(password, hash) ==
    IF ~hash.wellFormed THEN "hashedSecret too short to be a bcrypted password"
    ELSE IF Bcrypt(password, hash.cost, hash.salt) # hash.digest
         THEN "hashedPassword is not the hash of the given password"
    ELSE "none"

(***************************************************************************)
(* The password harness: two passwords and a salt are drawn at Init; the   *)
(* first is hashed, then the second is checked against the hash.           *)
(***************************************************************************)
MaxPwLen == 3           \* length of the short passwords drawn

PwBytes == { 0, 97 }
Salts == { 1, 2 }

Repeat(byte, n) == [i \in 1..n |-> byte]

Passwords ==
    UNION { [1..n -> PwBytes] : n \in 0..MaxPwLen }
    \cup { Repeat(97, BcryptKeyBytes - 1), Repeat(97, BcryptKeyBytes),
           Repeat(97, BcryptKeyBytes + 1) }

InitPassword ==
    /\ now = 0
    /\ issued = {}
    /\ lastV = NoValidation
    /\ input \in [kind : {"password"}, P1 : Passwords, P2 : Passwords, salt : Salts]
    /\ output = NoOutput
    /\ SrvIdle

PasswordHash ==
    /\ input.kind = "password"
    /\ output = NoOutput
    /\ output' = [kind |-> "hashed", hashed |-> HashPassword(input.P1, input.salt),
                  check |-> "none"]
    /\ UNCHANGED <<now, issued, lastV, input, srvVars>>

PasswordCheck ==
    /\ output.kind = "hashed"
    /\ output.hashed.err = "none"
    /\ output' = [output EXCEPT !.kind = "checked",
                    !.check = CheckPasswordHash(input.P2, output.hashed.hash)]
    /\ UNCHANGED <<now, issued, lastV, input, srvVars>>

NextPassword == PasswordHash \/ PasswordCheck

SpecPassword == InitPassword /\ [][NextPassword]_vars

\* C9 as stated: for any password P that HashPassword accepts,
\* CheckPasswordHash(P, HashPassword(P)) succeeds, and for any two passwords
\* P1 # P2, CheckPasswordHash(P2, HashPassword(P1)) returns an error.
C9_AsStated ==
    output.kind = "checked" =>
        /\ input.P1 = input.P2 => output.check = "none"
        /\ input.P1 # input.P2 => output.check # "none"

\* C9 as amended: for any password P that HashPassword accepts,
\* CheckPasswordHash(P, HashPassword(P)) succeeds, and for any two passwords
\* P1, P2 whose bcrypt keys differ (the key being the password followed by a
\* NUL byte, repeated cyclically and cut to 72 bytes),
\* CheckPasswordHash(P2, HashPassword(P1)) returns an error.
C9_PasswordRoundTrip ==
    output.kind = "checked" =>
        /\ input.P1 = input.P2 => output.check = "none"
        /\ BcryptKey(input.P1) # BcryptKey(input.P2) => output.check # "none"

\* both halves happen: a password checked against its own hash, and a
\* different one rejected
C9_Witness ==
    /\ output.kind = "checked"
    /\ input.P1 # <<>> /\ input.P2 # input.P1
    /\ BcryptKey(input.P1) # BcryptKey(input.P2)
    /\ output.check = "hashedPassword is not the hash of the given password"

(***************************************************************************)
(* The server of main.go: the handlers as atomic steps over the database   *)
(* tables, each leaving its response in resp.  A response records the      *)
(* request, the status, the token fields of its JSON body (a set: empty    *)
(* when the field is absent) and the calls the handler made, in order.     *)
(* Of a refresh_tokens row only the columns a handler reads are kept.      *)
(***************************************************************************)
SessionMinutes == 60
RefreshTokenHours == 60 * 24

SessionLifetime == SessionMinutes * 60 * TicksPerSecond
RefreshLifetime == RefreshTokenHours * 3600 * TicksPerSecond

MaxFraction == 1        \* single ticks the clock takes past a whole hour
MaxUsers == 1           \* users created and not yet cleared
MaxSessions == 2        \* session tokens minted

Emails == { "a@example.com", "b@example.com" }
LoginPasswords == { <<97>>, <<98>> }
\* what new users register with
NewEmails == { "a@example.com" }
NewPasswords == { <<97>> }
UserIds == 1..MaxUsers

Null == {}

\* what the random source may do during a login
LoginReadOutcomes ==
    { [n |-> n, err |-> e, data |-> [i \in 1..RefreshTokenBytes |-> PatternByte(p, i)]] :
        n \in { RefreshTokenBytes }, e \in { "none" }, p \in { 3 } }
    \cup { [n |-> 5, err |-> "none", data |-> [i \in 1..RefreshTokenBytes |-> 255]],
           [n |-> 0, err |-> "EOF", data |-> [i \in 1..RefreshTokenBytes |-> 0]] }

RefreshTokenStrings ==
    { MakeRefreshToken(<<o>>).token : o \in { x \in LoginReadOutcomes : x.n = RefreshTokenBytes } }

UnknownTokenString == HexEncode(<<0>>)

RequestHeaders ==
    { [h \in {"Content-Type"} |-> <<<<"j", "s", "o", "n">>>>] }
    \cup { [h \in {"Authorization"} |-> <<BearerPrefix \o t>>] :
              t \in RefreshTokenStrings \cup { UnknownTokenString } }
    \cup { [h \in {"Authorization"} |-> <<<<"B", "a", "s", "i", "c", " ">> \o t>>] :
              t \in RefreshTokenStrings }

Response(op, req, status, token, refreshToken, steps) ==
    [op |-> op, req |-> req, status |-> status, token |-> token,
     refresh_token |-> refreshToken, steps |-> steps]

\* returnError: a status and {error:"..."}, no token field
ReturnError(op, req, status, steps) == Response(op, req, status, {}, {}, steps)

InitServer ==
    /\ now \in 0..(TicksPerSecond - 1)
    /\ issued = {}
    /\ lastV = NoValidation
    /\ input = NoInput
    /\ output = NoOutput
    /\ cfg \in [platform : {"dev", "prod"}, secret : { <<115>> }]
    /\ hits = 0
    /\ users = {}
    /\ rtokens = {}
    /\ sessions = {}
    /\ resp = NoResp
    /\ chirps = {}
    /\ reqs = NoRequests
    /\ counted = CountedFrom(0)

harnessVars == <<issued, lastV, input, output>>
\* what the handlers of the API leave alone besides the harnesses' variables
idleVars == <<harnessVars, chirps, reqs, counted>>

\* time passes: a tick, the lifetime of a session token, or that of a refresh token
ClockSteps == { 1, SessionLifetime, RefreshLifetime }

Tick ==
    \E d \in ClockSteps :
        /\ d = 1 => (now % SessionLifetime) < MaxFraction
        /\ d = SessionLifetime => now < SessionLifetime
        /\ d = RefreshLifetime => now < SessionLifetime
        /\ now' = now + d
        /\ resp' = NoResp
        /\ UNCHANGED <<idleVars, cfg, hits, users, rtokens, sessions>>

\* mutant: the platform is not looked at
ResetHandler_Unguarded ==
    /\ users' = {}
    /\ rtokens' = {}
    /\ chirps' = {}
    /\ hits' = 0
    /\ counted' = CountedFrom(0)
    /\ resp' = Response("reset", NoInput, 200, {}, {}, <<"ClearUsers", "Store", "Write OK">>)
    /\ UNCHANGED <<now, harnessVars, cfg, sessions, reqs>>

\* mutant: a reset also replaces the signing secret
ResetHandler_NewSecret ==
    /\ cfg.platform = "dev"
    /\ cfg' = [cfg EXCEPT !.secret = <<98>>]
    /\ users' = {}
    /\ rtokens' = {}
    /\ chirps' = {}
    /\ hits' = 0
    /\ counted' = CountedFrom(0)
    /\ resp' = Response("reset", NoInput, 200, {}, {}, <<"ClearUsers", "Store", "Write OK">>)
    /\ UNCHANGED <<now, harnessVars, sessions, reqs>>

\* resetHandler (main.go:58-76); ClearUsers deletes every user and, by ON DELETE
\* CASCADE, every refresh token and every chirp.  After a failed ClearUsers the handler does not
\* return: it goes on to store zero and to write "OK" after the error body.
ResetHandler ==
    \E dbFault \in BOOLEAN :
        IF cfg.platform # "dev"
        THEN /\ resp' = Response("reset", NoInput, 403, {}, {}, <<>>)
             /\ UNCHANGED <<now, idleVars, cfg, hits, users, rtokens, sessions>>
        ELSE /\ users' = IF dbFault THEN users ELSE {}
             /\ rtokens' = IF dbFault THEN rtokens ELSE {}
             /\ chirps' = IF dbFault THEN chirps ELSE {}
             /\ hits' = 0
             /\ counted' = CountedFrom(0)
             /\ resp' = Response("reset", NoInput, IF dbFault THEN 500 ELSE 200, {}, {},
                                 IF dbFault
                                 THEN <<"ClearUsers", "Write Internal Server Error",
                                        "Store", "Write OK">>
                                 ELSE <<"ClearUsers", "Store", "Write OK">>)
             /\ UNCHANGED <<now, harnessVars, cfg, sessions, reqs>>

\* addUserHandler (main.go:101-136); an email already present makes CreateUser fail
AddUserHandler ==
    \E email \in NewEmails, password \in NewPasswords, dbFault \in BOOLEAN :
        LET req == [kind |-> "user", email |-> email, password |-> password]
            hashed == HashPassword(password, 1)
            fresh == { id \in UserIds :
                         /\ \A u \in users : u.id # id
                         /\ \A t \in sessions : t.claims.sub # UUIDString(id) }
        IN  IF hashed.err # "none"
            THEN /\ resp' = ReturnError("addUser", req, 400, <<"HashPassword">>)
                 /\ UNCHANGED <<now, idleVars, cfg, hits, users, rtokens, sessions>>
            ELSE IF dbFault \/ \E u \in users : u.email = email
            THEN /\ resp' = ReturnError("addUser", req, 400, <<"HashPassword", "CreateUser">>)
                 /\ UNCHANGED <<now, idleVars, cfg, hits, users, rtokens, sessions>>
            ELSE /\ \E id \in fresh :
                      users' = users \cup
                          { [id |-> id, email |-> email, hashed_password |-> hashed.hash] }
                 /\ resp' = Response("addUser", req, 201, {}, {}, <<"HashPassword", "CreateUser">>)
                 /\ UNCHANGED <<now, idleVars, cfg, hits, rtokens, sessions>>

\* database.GetUser: the row with that email, none when there is no such row
GetUser(email) == { u \in users : u.email = email }

\* loginHandler (main.go:138-200).  SignedString cannot fail for HS256 with a
\* []byte key, so the branch on MakeJWT's error is never taken.
LoginHandler ==
    \E email \in Emails, password \in LoginPasswords,
       dbFault \in { "none", "GetUser", "CreateRefreshToken" },
       random \in LoginReadOutcomes :
        LET req == [kind |-> "login", email |-> email, password |-> password]
            found == GetUser(email)
            dbUser == CHOOSE u \in found : TRUE
            jwt_token == MakeJWT(dbUser.id, cfg.secret, SessionLifetime, now)
            refresh == MakeRefreshToken(<<random>>)
            row == [token |-> refresh.token, user_id |-> dbUser.id,
                    expires_at |-> now + RefreshLifetime, revoked_at |-> Null]
            frame == UNCHANGED <<now, idleVars, cfg, hits, users>>
        IN  IF dbFault = "GetUser" \/ found = {}
            THEN /\ resp' = ReturnError("login", req, 400, <<"GetUser">>)
                 /\ UNCHANGED <<rtokens, sessions>> /\ frame
            ELSE IF CheckPasswordHash(password, dbUser.hashed_password) # "none"
            THEN /\ resp' = ReturnError("login", req, 401, <<"GetUser", "CheckPasswordHash">>)
                 /\ UNCHANGED <<rtokens, sessions>> /\ frame
            ELSE /\ Cardinality(sessions \cup {jwt_token}) <= MaxSessions
                 /\ sessions' = sessions \cup {jwt_token}
                 /\ frame
                 /\ IF refresh.err # "none"
                    THEN /\ resp' = ReturnError("login", req, 400,
                                <<"GetUser", "CheckPasswordHash", "MakeJWT",
                                  "MakeRefreshToken">>)
                         /\ UNCHANGED rtokens
                    ELSE IF dbFault = "CreateRefreshToken"
                            \/ \E r \in rtokens : r.token = refresh.token
                    THEN /\ resp' = ReturnError("login", req, 400,
                                <<"GetUser", "CheckPasswordHash", "MakeJWT",
                                  "MakeRefreshToken", "CreateRefreshToken">>)
                         /\ UNCHANGED rtokens
                    ELSE /\ rtokens' = rtokens \cup {row}
                         /\ resp' = Response("login", req, 200, {jwt_token}, {refresh.token},
                                <<"GetUser", "CheckPasswordHash", "MakeJWT",
                                  "MakeRefreshToken", "CreateRefreshToken">>)

\* database.GetRefreshToken: the row of that token that has not been revoked
GetRefreshToken(token) ==
    { r \in rtokens : r.token = token /\ r.revoked_at = Null }

\* mutant: the comparison is the wrong way round
RefreshExpired_Reversed(row, t) == t < row.expires_at

\* the token row is expired past its expires_at: db_token.ExpiresAt.Before(time.Now())
RefreshExpired(row, t) == row.expires_at < t

\* refreshHandler (main.go:329-363); MakeJWT's error branch is never taken
RefreshHandler ==
    \E headers \in RequestHeaders, dbFault \in BOOLEAN :
        LET req == [kind |-> "refresh", headers |-> headers]
            bearer == GetBearerToken(headers)
            found == GetRefreshToken(bearer.token)
            db_token == CHOOSE r \in found : TRUE
            jwt_token == MakeJWT(db_token.user_id, cfg.secret, SessionLifetime, now)
            frame == UNCHANGED <<now, idleVars, cfg, hits, users, rtokens>>
        IN  IF bearer.err # "none"
            THEN /\ resp' = ReturnError("refresh", req, 400, <<"GetBearerToken">>)
                 /\ UNCHANGED sessions /\ frame
            ELSE IF dbFault \/ found = {}
            THEN /\ resp' = ReturnError("refresh", req, 401,
                                        <<"GetBearerToken", "GetRefreshToken">>)
                 /\ UNCHANGED sessions /\ frame
            ELSE IF RefreshExpired(db_token, now)
            THEN /\ resp' = ReturnError("refresh", req, 401,
                                        <<"GetBearerToken", "GetRefreshToken">>)
                 /\ UNCHANGED sessions /\ frame
            ELSE /\ Cardinality(sessions \cup {jwt_token}) <= MaxSessions
                 /\ sessions' = sessions \cup {jwt_token}
                 /\ resp' = Response("refresh", req, 200, {jwt_token}, {},
                                     <<"GetBearerToken", "GetRefreshToken", "MakeJWT">>)
                 /\ frame

\* revokeHandler (registered at main.go:396): the presented token's row gets
\* revoked_at set to the current time
RevokeHandler ==
    \E headers \in RequestHeaders, dbFault \in BOOLEAN :
        LET req == [kind |-> "revoke", headers |-> headers]
            bearer == GetBearerToken(headers)
            frame == UNCHANGED <<now, idleVars, cfg, hits, users, sessions>>
        IN  IF bearer.err # "none"
            THEN /\ resp' = ReturnError("revoke", req, 400, <<"GetBearerToken">>)
                 /\ UNCHANGED rtokens /\ frame
            ELSE IF dbFault
            THEN /\ resp' = ReturnError("revoke", req, 500,
                                        <<"GetBearerToken", "RevokeRefreshToken">>)
                 /\ UNCHANGED rtokens /\ frame
            ELSE /\ rtokens' = { IF r.token = bearer.token
                                 THEN [r EXCEPT !.revoked_at = {now}] ELSE r : r \in rtokens }
                 /\ resp' = Response("revoke", req, 204, {}, {},
                                     <<"GetBearerToken", "RevokeRefreshToken">>)
                 /\ frame

Next ==
    \/ Tick
    \/ ResetHandler
    \/ AddUserHandler
    \/ LoginHandler
    \/ RefreshHandler
    \/ RevokeHandler

Spec == InitServer /\ [][Next]_vars

(***************************************************************************)
(* Claims about the handlers, checked under Spec.                          *)
(***************************************************************************)
\* the rows of the token a refresh or revoke request presented
PresentedRows ==
    LET bearer == GetBearerToken(resp.req.headers)
    IN  IF bearer.err # "none" THEN {}
        ELSE { r \in rtokens : r.token = bearer.token }

C4_WitnessRevoked ==
    /\ resp.op = "refresh"
    /\ \E r \in PresentedRows : r.revoked_at # Null /\ ~(r.expires_at < now)
    /\ resp.status = 401

\* a refresh request served
C4_WitnessMinted ==
    /\ resp.op = "refresh" /\ resp.token # {} /\ resp.status = 200

\* the password of the login request has the bcrypt key the stored hash was made of
PasswordMatches(u) ==
    /\ u.hashed_password.wellFormed
    /\ u.hashed_password.digest =
          [key |-> BcryptKey(resp.req.password),
           cost |-> u.hashed_password.cost, salt |-> u.hashed_password.salt]

Made(step) == \E i \in 1..Len(resp.steps) : resp.steps[i] = step

\* C6: a login response carries a session token or a refresh token only when
\* the password matched the user's stored hash and the refresh token has been
\* persisted (for that user, unrevoked, expiring 60 days on); when the user
\* lookup, the password check, the token creation or the persistence fails,
\* the response carries neither token and the handler has made no later call.
C6_LoginTokensOnlyAfterVerification ==
    resp.op = "login" =>
        /\ ( resp.token # {} \/ resp.refresh_token # {} ) =>
              /\ resp.status = 200
              /\ \E u \in users :
                    /\ u.email = resp.req.email
                    /\ PasswordMatches(u)
                    /\ \A t \in resp.token : ValidateJWT(t, cfg.secret, now) = Ok(u.id)
                    /\ \E r \in rtokens :
                          /\ resp.refresh_token = { r.token }
                          /\ r.user_id = u.id
                          /\ r.revoked_at = Null
                          /\ r.expires_at = now + RefreshLifetime
        /\ resp.status # 200 => ( resp.token = {} /\ resp.refresh_token = {} )
        /\ resp.status = 200 => ( resp.token # {} /\ resp.refresh_token # {} )
        /\ ( \A u \in users : u.email # resp.req.email ) =>
              ( resp.status = 400 /\ resp.steps = <<"GetUser">> )
        /\ ( \E u \in users : u.email = resp.req.email /\ ~PasswordMatches(u) ) =>
              /\ resp.status \in { 400, 401 }
              /\ ~Made("MakeJWT") /\ ~Made("MakeRefreshToken")
              /\ ~Made("CreateRefreshToken")

\* a login served: both tokens returned
C6_Witness ==
    /\ resp.op = "login" /\ resp.status = 200
    /\ resp.token # {} /\ resp.refresh_token # {}

\* a login refused at the password check
C6_WitnessRefused ==
    /\ resp.op = "login" /\ resp.status = 401
    /\ resp.steps = <<"GetUser", "CheckPasswordHash">>

\* a login failed at the random source or at the insert
C6_WitnessTokenFailure ==
    /\ resp.op = "login" /\ resp.status = 400 /\ Made("MakeRefreshToken")

\* C10: a session token's only validity transition is Valid -> Expired by the
\* passage of time: once ValidateJWT fails on it as expired it fails so ever
\* after, no handler (login, refresh, revoke, reset, user creation) changes
\* what ValidateJWT returns for a token already minted, and the only change
\* there is at all is from the subject id to the expiry error as time passes.
C10_OnlyExpiryChangesValidity ==
    [][ \A tok \in sessions :
          LET before == ValidateJWT(tok, cfg.secret, now)
              after == ValidateJWT(tok, cfg'.secret, now')
          IN  /\ before = Err("token is expired") => after = Err("token is expired")
              /\ resp'.op \in { "login", "refresh", "revoke", "reset", "addUser" }
                    => after = before
              /\ after # before =>
                    /\ now' > now
                    /\ before.kind = "ok"
                    /\ after = Err("token is expired") ]_vars

\* a minted session token that has expired
C10_Witness ==
    /\ resp.op = "reset"
    /\ \E tok \in sessions : ValidateJWT(tok, cfg.secret, now) = Err("token is expired")

(***************************************************************************)
(* Chirps.  A session token travels in the Authorization header as one     *)
(* symbol of the header text; any text that is not one serialized token    *)
(* has another length here and does not parse.  A body is a sequence of    *)
(* one-character strings.                                                  *)
(***************************************************************************)
MaxChirps == 2          \* chirps stored and not yet cleared
MaxBodyLen == 140

ChirpIds == 1..MaxChirps

\* the compact serialization SignedString returns, as header text
EncodeJWT(tok) == << tok >>
\* jwt's Parser splitting the token string into its segments
DecodeJWT(tokenString) ==
    IF Len(tokenString) = 1 THEN tokenString[1] ELSE MalformedToken

\* strings.ToLower on the letters the bodies are made of
ToLower(str) ==
    [i \in 1..Len(str) |->
        CASE str[i] = "F" -> "f" [] str[i] = "O" -> "o" [] str[i] = "R" -> "r"
          [] str[i] = "N" -> "n" [] str[i] = "A" -> "a" [] str[i] = "X" -> "x"
          [] OTHER -> str[i]]

\* strings.Split(body, " ")
RECURSIVE Split(_)
Split(str) ==
    IF \A i \in 1..Len(str) : str[i] # " " THEN << str >>
    ELSE LET k == CHOOSE i \in 1..Len(str) :
                      str[i] = " " /\ \A j \in 1..(i - 1) : str[j] # " "
         IN  << SubSeq(str, 1, k - 1) >> \o Split(SubSeq(str, k + 1, Len(str)))

\* strings.Join(words, " ")
RECURSIVE Join(_)
Join(words) ==
    IF Len(words) = 0 THEN <<>>
    ELSE IF Len(words) = 1 THEN words[1]
    ELSE words[1] \o <<" ">> \o Join(Tail(words))

BadWords ==
    { <<"k", "e", "r", "f", "u", "f", "f", "l", "e">>,
      <<"s", "h", "a", "r", "b", "e", "r", "t">>,
      <<"f", "o", "r", "n", "a", "x">> }

\* Clean (main.go:78-90)
Clean(body) ==
    LET body_words == Split(body)
    IN  Join([i \in 1..Len(body_words) |->
                IF ToLower(body_words[i]) \in BadWords
                THEN <<"*", "*", "*", "*">> ELSE body_words[i]])

ChirpBodies ==
    { <<"h", "i", " ", "F", "o", "r", "N", "A", "X">>,
      Repeat("x", MaxBodyLen + 1) }

\* the session tokens loginHandler has handed out by clock reading t: made by
\* MakeJWT under the server secret, at the start or just now
SessionTokens(t) ==
    { MakeJWT(u, cfg.secret, SessionLifetime, t0) : u \in UserIds, t0 \in { 0, t } }

\* tokens signed under the server secret by someone who is not MakeJWT: one
\* whose subject is no UUID, one without an expires-at
OddTokens(t) ==
    { SignedString([sub |-> <<"garbage", 0>>, exp |-> {NewNumericDate(t) + 1},
                    iat |-> {NewNumericDate(t)}, iss |-> "chirpy"], cfg.secret),
      SignedString([sub |-> UUIDString(1), exp |-> NilDate,
                    iat |-> {NewNumericDate(t)}, iss |-> "chirpy"], cfg.secret) }

\* a token signed by someone who does not hold the server's secret
ForgedTokens(t) ==
    { SignedString([sub |-> UUIDString(u), exp |-> {NewNumericDate(t) + 1},
                    iat |-> {NewNumericDate(t)}, iss |-> "chirpy"], <<98>>) :
        u \in UserIds }

\* what a client may put in the headers of POST /api/chirps at clock reading t
ChirpHeaders(t) ==
    { [h \in {"Content-Type"} |-> <<<<"j", "s", "o", "n">>>>] }
    \cup { [h \in {"Authorization"} |-> <<BearerPrefix \o EncodeJWT(tok)>>] :
              tok \in SessionTokens(t) \cup OddTokens(t) \cup ForgedTokens(t) }
    \cup { [h \in {"Authorization"} |->
                <<<<"D", "i", "g", "e", "s", "t", " ">> \o EncodeJWT(tok)>>] :
              tok \in { MakeJWT(1, cfg.secret, SessionLifetime, t) } }
    \cup { [h \in {"Authorization"} |-> <<BearerPrefix \o text>>] :
              text \in { <<>>, <<"a", ".", "b">> } }

ChirpResponse(req, status, chirp, steps) ==
    [op |-> "addChirp", req |-> req, status |-> status, chirp |-> chirp, steps |-> steps]

\* mutant: the subject is read from the token's claims without validating it
Authenticate_Unverified(headers, secret, t) ==
    LET bearer == GetBearerToken(headers)
    IN  IF bearer.err # "none"
        THEN [status |-> 400, uuid |-> UUIDNil, steps |-> <<"GetBearerToken">>]
        ELSE [status |-> 200, uuid |-> UUIDParse(DecodeJWT(bearer.token).claims.sub),
              steps |-> <<"GetBearerToken", "ValidateJWT">>]

\* addChirpHandler's first half (main.go:219-228): the bearer token of the
\* request, validated under the server secret.  Status 200 stands for going on;
\* status 0 for the panic of ValidateJWT, after which net/http drops the
\* connection without a response.
Authenticate(headers, secret, t) ==
    LET bearer == GetBearerToken(headers)
        validated == ValidateJWT(DecodeJWT(bearer.token), secret, t)
    IN  IF bearer.err # "none"
        THEN [status |-> 400, uuid |-> UUIDNil, steps |-> <<"GetBearerToken">>]
        ELSE IF validated.kind = "panic"
        THEN [status |-> 0, uuid |-> UUIDNil, steps |-> <<"GetBearerToken", "ValidateJWT">>]
        ELSE IF validated.kind = "err"
        THEN [status |-> 401, uuid |-> UUIDNil, steps |-> <<"GetBearerToken", "ValidateJWT">>]
        ELSE [status |-> 200, uuid |-> validated.id,
              steps |-> <<"GetBearerToken", "ValidateJWT">>]

\* database.CreateChirp on the chirps table (002_chirps.sql): the row of the
\* parameters under a new id, refused when user_id is not the id of a user
CreateChirp(params, id, dbFault) ==
    IF dbFault \/ params.UserID \notin { u.id : u \in users }
    THEN [err |-> "error", row |-> Null]
    ELSE [err |-> "none", row |-> [id |-> id, body |-> params.Body, user_id |-> params.UserID]]

\* addChirpHandler (main.go:210-263); a body that does not decode is the empty body
AddChirpHandler ==
    \E headers \in ChirpHeaders(now), body \in ChirpBodies, dbFault \in BOOLEAN :
        LET req == [kind |-> "chirp", headers |-> headers, body |-> body]
            auth == Authenticate(headers, cfg.secret, now)
            dbParams == [Body |-> Clean(body), UserID |-> auth.uuid]
            fresh == { id \in ChirpIds : \A c \in chirps : c.id # id }
            frame == UNCHANGED <<now, harnessVars, reqs, counted, cfg, hits, users,
                                 rtokens, sessions>>
        IN  IF auth.status # 200
            THEN /\ resp' = ChirpResponse(req, auth.status, Null, auth.steps)
                 /\ UNCHANGED chirps /\ frame
            ELSE IF Len(body) > MaxBodyLen
            THEN /\ resp' = ChirpResponse(req, 400, Null, auth.steps)
                 /\ UNCHANGED chirps /\ frame
            ELSE \E id \in fresh :
                    LET created == CreateChirp(dbParams, id, dbFault)
                    IN  /\ chirps' = IF created.err = "none"
                                     THEN chirps \cup { created.row } ELSE chirps
                        /\ resp' = ChirpResponse(req,
                                       IF created.err = "none" THEN 201 ELSE 400,
                                       created.row,
                                       auth.steps \o <<"Clean", "CreateChirp">>)
                        /\ frame

InitChirp ==
    /\ InitServer
    /\ cfg.platform = "dev"

NextChirp ==
    \/ Tick
    \/ ResetHandler
    \/ AddUserHandler
    \/ AddChirpHandler

SpecChirp == InitChirp /\ [][NextChirp]_vars

(***************************************************************************)
(* Claims about addChirpHandler, checked under SpecChirp.                  *)
(***************************************************************************)
\* C11: a chirp is created only for an authenticated request: addChirpHandler
\* calls CreateChirp only after GetBearerToken has extracted a token from the
\* Authorization header and ValidateJWT has accepted that token under the
\* server secret, and the stored chirp's user_id equals the subject returned
\* by ValidateJWT; if extraction or validation fails, no chirp is created.
\* No other step adds a chirp.
C11_ChirpOnlyWhenAuthenticated ==
    [][ /\ (chirps' \ chirps # {}) => resp'.op = "addChirp"
        /\ resp'.op = "addChirp" =>
            LET bearer == GetBearerToken(resp'.req.headers)
                validated == ValidateJWT(DecodeJWT(bearer.token), cfg.secret, now)
                steps == resp'.steps
                called == \E i \in 1..Len(steps) : steps[i] = "CreateChirp"
            IN  /\ (bearer.err # "none" \/ validated.kind # "ok")
                    => (chirps' = chirps /\ ~called)
                /\ called
                    => /\ bearer.err = "none" /\ validated.kind = "ok"
                       /\ SubSeq(steps, 1, 2) = <<"GetBearerToken", "ValidateJWT">>
                /\ \A c \in chirps' \ chirps :
                       /\ called
                       /\ c = resp'.chirp
                       /\ c.user_id = validated.id
      ]_vars

\* a chirp has just been stored for the subject of an accepted token
C11_Witness ==
    /\ resp.op = "addChirp" /\ resp.status = 201
    /\ resp.chirp \in chirps
    /\ LET bearer == GetBearerToken(resp.req.headers)
       IN  /\ bearer.err = "none"
           /\ ValidateJWT(DecodeJWT(bearer.token), cfg.secret, now) = Ok(resp.chirp.user_id)

\* a request with an expired session token has just been turned away, the
\* chirps stored before it still there
C11_WitnessRejected ==
    /\ resp.op = "addChirp" /\ resp.status = 401
    /\ chirps # {}
    /\ DecodeJWT(GetBearerToken(resp.req.headers).token) \in SessionTokens(0)

(***************************************************************************)
(* The admin side: the hit counter of the /app/ file server, the metrics   *)
(* page and the reset.  fileserverHits is an atomic.Int32: an Add is one   *)
(* indivisible step and wraps around at the ends of the signed 32-bit      *)
(* range.  A request to /app/ runs the middleware's Add, then the file     *)
(* server; requests run concurrently with each other and with the admin    *)
(* handlers.                                                               *)
(***************************************************************************)
MaxAdds == 3            \* Adds made since the last Store
MaxInt32 == 2147483647
MinInt32 == (-MaxInt32) - 1

\* v + delta in 32-bit two's complement, for 0 <= delta
Int32Add(v, delta) ==
    IF v > MaxInt32 - delta
    THEN MinInt32 + ((delta - (MaxInt32 - v)) - 1)
    ELSE v + delta

\* mutant: the increment stores its operand, forgetting the Adds before it
AtomicAdd_Store(v, delta) == delta

\* atomic.Int32.Add: the new value, read and written in one step
AtomicAdd(v, delta) == Int32Add(v, delta)

\* middlewareMetricsInc (main.go:38-43), first statement: request r enters the
\* middleware and adds one to the counter
MiddlewareMetricsInc(r) ==
    /\ reqs[r] = "idle"
    /\ counted.adds < MaxAdds
    /\ hits' = AtomicAdd(hits, 1)
    /\ counted' = [counted EXCEPT !.adds = @ + 1]
    /\ reqs' = [reqs EXCEPT ![r] = "serving"]
    /\ resp' = NoResp
    /\ UNCHANGED <<now, harnessVars, cfg, users, rtokens, sessions, chirps>>

\* middlewareMetricsInc, second statement: next.ServeHTTP, the file server
\* answering request r
NextServeHTTP(r) ==
    /\ reqs[r] = "serving"
    /\ reqs' = [reqs EXCEPT ![r] = "idle"]
    /\ resp' = [op |-> "app", req |-> r, status |-> 200]
    /\ UNCHANGED <<now, harnessVars, cfg, hits, counted, users, rtokens, sessions, chirps>>

\* metricsHandler (main.go:45-56): the page shows what Load returns
MetricsHandler ==
    /\ resp' = [op |-> "metrics", status |-> 200, visits |-> hits]
    /\ UNCHANGED <<now, harnessVars, cfg, hits, counted, reqs, users, rtokens, sessions,
                   chirps>>

\* the server at any moment of its life: the counter stands at zero or, after
\* that many requests, just below the top of its range
InitAdmin ==
    /\ now = 0
    /\ issued = {}
    /\ lastV = NoValidation
    /\ input = NoInput
    /\ output = NoOutput
    /\ cfg \in [platform : {"dev", "prod"}, secret : { <<115>> }]
    /\ hits \in { 0, MaxInt32 - 1 }
    /\ counted = CountedFrom(hits)
    /\ users = {}
    /\ rtokens = {}
    /\ sessions = {}
    /\ resp = NoResp
    /\ chirps = {}
    /\ reqs = NoRequests

NextAdmin ==
    \/ \E r \in AppRequests : MiddlewareMetricsInc(r)
    \/ \E r \in AppRequests : NextServeHTTP(r)
    \/ MetricsHandler
    \/ ResetHandler
    \/ AddUserHandler

SpecAdmin == InitAdmin /\ [][NextAdmin]_vars

(***************************************************************************)
(* Claims about the admin handlers and the hit counter, checked under      *)
(* SpecAdmin.                                                              *)
(***************************************************************************)
\* C12 as stated: the admin reset changes state only on the dev platform and
\* only when clearing succeeds: when the platform is not "dev", resetHandler
\* responds Forbidden and leaves the stored users and the hit counter
\* unchanged; and when ClearUsers returns an error, resetHandler responds with
\* an internal-server-error outcome only and leaves the hit counter unchanged.
C12_AsStated ==
    [][ resp'.op = "reset" =>
          /\ cfg.platform # "dev"
                => (resp'.status = 403 /\ users' = users /\ hits' = hits)
          /\ resp'.status = 500
                => /\ resp'.steps = <<"ClearUsers", "Write Internal Server Error">>
                   /\ hits' = hits
      ]_vars

\* C12, the part that holds: off the dev platform resetHandler responds
\* Forbidden and leaves the stored users and the hit counter unchanged.
C12_ForbiddenOffDev ==
    [][ (resp'.op = "reset" /\ cfg.platform # "dev")
            => (resp'.status = 403 /\ users' = users /\ hits' = hits)
      ]_vars

\* a reset has just been refused with users stored and hits counted
C12_Witness ==
    /\ resp.op = "reset" /\ resp.status = 403
    /\ cfg.platform # "dev"
    /\ users # {} /\ hits > 0

\* a reset whose ClearUsers failed has just stored zero in the counter all the
\* same, and has written "OK" after the error; the users are still there
C12_WitnessFallThrough ==
    /\ resp.op = "reset" /\ resp.status = 500
    /\ users # {}
    /\ hits = 0 /\ counted = CountedFrom(0)
    /\ resp.steps = <<"ClearUsers", "Write Internal Server Error", "Store", "Write OK">>

\* C13 as stated: under any interleaving of concurrent requests, the hit
\* counter equals the number of /app/ requests that have entered the metrics
\* middleware since the last reset that stored zero (or since the counter
\* stood at the value it stood at initially).
C13_AsStated ==
    /\ hits >= counted.base
    /\ hits - counted.base = counted.adds

\* C13 as amended: under any interleaving of concurrent requests, the hit
\* counter equals, as a signed 32-bit value that wraps around, the number of
\* /app/ requests that have entered the metrics middleware since the last
\* reset that stored zero; each such request changes it by one Add, and no
\* step other than such an Add and a reset on the dev platform modifies it.
C13_HitsCountWrapping ==
    [][ /\ hits' = Int32Add(counted'.base, counted'.adds)
        /\ hits' # hits
            => \/ /\ \E r \in AppRequests : reqs[r] = "idle" /\ reqs'[r] = "serving"
                  /\ counted'.adds = counted.adds + 1
                  /\ hits' = Int32Add(hits, 1)
               \/ resp'.op = "reset" /\ cfg.platform = "dev" /\ hits' = 0
      ]_vars

\* all the requests are being served at the same time, each of them counted
C13_Witness ==
    /\ \A r \in AppRequests : reqs[r] = "serving"
    /\ counted.base = 0 /\ counted.adds >= MaxRequests
    /\ hits = counted.adds

\* the counter has wrapped around
C13_WitnessWrapped ==
    /\ hits = MinInt32
    /\ counted.base = MaxInt32 - 1 /\ counted.adds = 2
====
